---- MODULE Spec2Model ----
(***************************************************************************)
(* trdelnik, crates/trdelnik/src/commander.rs: the Commander (build,       *)
(* client code generation) and the LocalnetHandle (start and stop of the   *)
(* local validator), as a state machine.                                   *)
(*                                                                         *)
(* Part 1: the localnet lifecycle (start_localnet, LocalnetHandle::stop).  *)
(* Part 2: generate_program_client_lib_rs (package discovery, the          *)
(*         try_join_all fan-out of expansion chains, the rustfmt pipe).    *)
(*                                                                         *)
(* Every await of the code is a point where the environment (the validator *)
(* processes, the compiler and formatter subprocesses) may take steps.     *)
(* Every fallible I/O call followed by `?` has an Ok and an Err outcome.   *)
(***************************************************************************)
EXTENDS Naturals, Sequences, FiniteSets, TLC

\* ------------------------------------------------------------------ bounds
\* how many validator processes one run may spawn
MaxNodes == 2
\* how many times is_localnet_running(true) polls before giving up
MaxRetries == 2

\* how many packages the workspace metadata may list
MaxPackages == 3

Nodes == 1..MaxNodes

VARIABLES
  \* ---- localnet
  proc,       \* proc[n]: the OS process n: "unspawned", "unready" (alive, not
              \* answering RPC), "ready" (alive, answering RPC), "exited"
  killSent,   \* killSent[n]: a SIGKILL was requested for process n
  ledger,     \* the directory "test-ledger": "absent" or "present"
  handles,    \* the LocalnetHandle values the caller holds (by process)
  lpc,        \* position of the caller in start_localnet / stop
  cur,        \* the process the call in progress is about (0: none)
  retries,    \* polls left in the is_localnet_running call in progress
  lresult,    \* what the last completed call returned
  life,       \* life[n]: the lifecycle state of n (section 4.6 of the design)
  hist,       \* hist[n]: the lifecycle states n entered, in order
  obs,        \* obs[n]: what the calls about n observed and did
  \* ---- generate_program_client_lib_rs
  gpc,        \* position of the caller in generate_program_client_lib_rs
  packages,   \* cargo_toml_data.packages: sequence of [name, manifest_path]
  fate,       \* fate[i]: what expanding and extracting program i comes to (input)
  chain,      \* chain[i]: the i-th future of the fan-out: "unpolled", "running",
              \* "ok", "err", "dropped"
  comp,       \* comp[i]: the compiler subprocess of chain i: "none", "running", "exited"
  compKill,   \* compKill[i]: a kill was sent to the compiler subprocess of chain i
  slots,      \* slots[i]: the IdlProgram chain i yielded, or NoProgram
  idl,        \* the Idl handed to the generator, or NoIdl
  fmt,        \* the rustfmt subprocess: "none", "running", "exited"
  fmtKill,    \* a kill was sent to the rustfmt subprocess
  fmtStdin,   \* our end of rustfmt's stdin: "none", "open", "closed"
  fmtGot,     \* the text rustfmt received on its stdin, or NoText
  fmtOut,     \* what rustfmt wrote to its stdout: [status, utf8, text], or NoOutput
  file,       \* the content of <root>/program_client/src/lib.rs
  gresult,    \* what generate_program_client_lib_rs returned, or NoResult
  calls,      \* history of the run: calls.expand[i], calls.extract[i]: how often the
              \* compiler and the extractor were invoked for program i; calls.fmtSpawns:
              \* how often rustfmt was spawned; calls.firstExit: the chain whose
              \* compiler exited first (0: none yet)
  \* ---- build_programs
  bpc,        \* position of the caller in build_programs: "idle" or "waiting"
  builds,     \* builds[k]: the k-th call of build_programs: its cargo process, the
              \* exit status of the process, the I/O step that failed, the result
  \* ---- the package resolver
  rpkgs,      \* the packages of the metadata handed to the resolver (input)
  rpos,       \* how many of them the filter_map iterator has examined
  rsel        \* program_names: the names it has yielded, in order

lvars == <<proc, killSent, ledger, handles, lpc, cur, retries, lresult, life, hist, obs>>
gvars == <<gpc, packages, fate, chain, comp, compKill, slots, idl, fmt, fmtKill, fmtStdin,
           fmtGot, fmtOut, file, gresult, calls>>
bvars == <<bpc, builds>>
rvars == <<rpkgs, rpos, rsel>>
vars == <<proc, killSent, ledger, handles, lpc, cur, retries, lresult, life, hist, obs,
          gpc, packages, fate, chain, comp, compKill, slots, idl, fmt, fmtKill, fmtStdin,
          fmtGot, fmtOut, file, gresult, calls, bpc, builds, rpkgs, rpos, rsel>>

\* ================================================================ localnet

NoObs ==
  [ startReady |-> "none",    \* was n answering at the first poll of start's probe: "yes" / "no"
    probes     |-> <<>>,      \* the is_localnet_running calls made: <<wait, answer>>
    stopProbe  |-> "none",    \* the answer of stop's probe: "running" / "stopped"
    deadAtProbe |-> "none",   \* had n exited when stop's probe answered: "yes" / "no"
    removeCalled |-> FALSE,   \* stop called remove_dir_all
    aliveAtRemove |-> FALSE,  \* the process was alive when remove_dir_all ran
    ledgerGone |-> FALSE,     \* the ledger was absent when stop returned
    stopResult |-> "none",    \* what stop returned
    ownAtHandle |-> "none",   \* was n itself alive and answering when start returned
                              \* its handle: "yes" / "no"
    log |-> <<>> ]            \* the steps the calls about n took, in order: [ev, arg]

LInit ==
  /\ proc = [n \in Nodes |-> "unspawned"]
  /\ killSent = [n \in Nodes |-> FALSE]
  /\ ledger = "absent"
  /\ handles = {}
  /\ lpc = "idle"
  /\ cur = 0
  /\ retries = 0
  /\ lresult = "none"
  /\ life = [n \in Nodes |-> "NotStarted"]
  /\ hist = [n \in Nodes |-> <<"NotStarted">>]
  /\ obs = [n \in Nodes |-> NoObs]

Alive(n) == proc[n] \in {"unready", "ready"}

\* one step of a call: ev is "spawn", "probe_wait" (is_localnet_running(true)),
\* "probe_nowait" (is_localnet_running(false)), "kill" or "remove"; arg is its outcome
Event(ev, arg) == [ev |-> ev, arg |-> arg]

Enter(n, s) ==
  /\ life' = [life EXCEPT ![n] = s]
  /\ hist' = [hist EXCEPT ![n] = Append(@, s)]

\* ---- the validator processes (environment)

\* a spawned validator finishes initialising: it has its ledger on disk and answers RPC
NodeReady(n) ==
  /\ proc[n] = "unready"
  /\ proc' = [proc EXCEPT ![n] = "ready"]
  /\ ledger' = "present"
  /\ UNCHANGED <<killSent, handles, lpc, cur, retries, lresult, life, hist, obs>>
  /\ UNCHANGED gvars
  /\ UNCHANGED <<bvars, rvars>>

\* a live validator stops answering RPC (health check failing, sockets closing)
NodeUnready(n) ==
  /\ proc[n] = "ready"
  /\ proc' = [proc EXCEPT ![n] = "unready"]
  /\ UNCHANGED <<killSent, ledger, handles, lpc, cur, retries, lresult, life, hist, obs>>
  /\ UNCHANGED gvars
  /\ UNCHANGED <<bvars, rvars>>

\* a validator process terminates: killed, or on its own (crash, port in use)
NodeExit(n) ==
  /\ Alive(n)
  /\ proc' = [proc EXCEPT ![n] = "exited"]
  /\ UNCHANGED <<killSent, ledger, handles, lpc, cur, retries, lresult, life, hist, obs>>
  /\ UNCHANGED gvars
  /\ UNCHANGED <<bvars, rvars>>

\* ---- Client::is_localnet_running(wait)

\* one poll of the RPC endpoint: is some validator answering on the local port
IsAnswering == \E n \in Nodes : proc[n] = "ready"

\* the step of is_localnet_running(wait) with `left` polls left:
\* "true", "false", or "retry" (sleep and poll again; only when wait)
ProbeStep(wait, left) ==
  IF IsAnswering THEN "true"
  ELSE IF wait /\ left > 1 THEN "retry"
  ELSE "false"

\* ---- Commander::start_localnet

NextNode == CHOOSE n \in Nodes : proc[n] = "unspawned" /\ \A m \in Nodes : m < n => proc[m] # "unspawned"

\* Command::new("solana-test-validator")...spawn()?
StartSpawn(ok) ==
  /\ lpc = "idle"
  /\ \E n \in Nodes : proc[n] = "unspawned"
  /\ IF ok
     THEN /\ proc' = [proc EXCEPT ![NextNode] = "unready"]
          /\ cur' = NextNode
          /\ lpc' = "start_probe"
          /\ retries' = MaxRetries
          /\ Enter(NextNode, "Starting")
          /\ obs' = [obs EXCEPT ![NextNode].log = Append(@, Event("spawn", "ok"))]
          /\ UNCHANGED <<lresult>>
     ELSE /\ lresult' = "IoError"
          /\ UNCHANGED <<proc, cur, lpc, retries, life, hist, obs>>
  /\ UNCHANGED <<killSent, ledger, handles>>
  /\ UNCHANGED gvars
  /\ UNCHANGED <<bvars, rvars>>

\* StartFinish with the test of the probe's answer lost: a handle in every case
StartFinishUnchecked(n, running) ==
  /\ handles' = handles \cup {n}
  /\ lresult' = "Handle"
  /\ Enter(n, "Running")

\* StartFinish with the test of the probe's answer negated
StartFinishInverted(n, running) ==
  IF ~running
  THEN /\ handles' = handles \cup {n}
       /\ lresult' = "Handle"
       /\ Enter(n, "Running")
  ELSE /\ lresult' = "LocalnetIsNotRunning"
       /\ Enter(n, "StartFailed")
       /\ UNCHANGED handles

\* what start_localnet does once its probe answered `running`
StartFinish(n, running) ==
  IF running
  THEN /\ handles' = handles \cup {n}
       /\ lresult' = "Handle"
       /\ Enter(n, "Running")
  ELSE /\ lresult' = "LocalnetIsNotRunning"
       /\ Enter(n, "StartFailed")
       /\ UNCHANGED handles

\* if !Client::new(..).is_localnet_running(true).await { Err(LocalnetIsNotRunning)? }
StartProbe ==
  /\ lpc = "start_probe"
  /\ LET step == ProbeStep(TRUE, retries)
         seen == IF obs[cur].startReady = "none"
                 THEN [obs EXCEPT ![cur].startReady = IF proc[cur] = "ready" THEN "yes" ELSE "no"]
                 ELSE obs
     IN IF step = "retry"
        THEN /\ retries' = retries - 1
             /\ obs' = seen
             /\ UNCHANGED <<handles, lpc, cur, lresult, life, hist>>
        ELSE /\ obs' = [seen EXCEPT ![cur].probes = Append(@, <<TRUE, step>>),
                                   ![cur].log = Append(@, Event("probe_wait", step)),
                                   ![cur].ownAtHandle =
                                      IF step = "false" THEN "none"
                                      ELSE IF proc[cur] = "ready" THEN "yes" ELSE "no"]
             /\ StartFinish(cur, step = "true")
             /\ lpc' = "idle"
             /\ cur' = 0
             /\ retries' = 0
  /\ UNCHANGED <<proc, killSent, ledger>>
  /\ UNCHANGED gvars
  /\ UNCHANGED <<bvars, rvars>>

\* ---- LocalnetHandle::stop(mut self)

\* StopKill taking the handle by reference: the caller keeps it
StopKillBorrowing(n, ok) ==
  /\ lpc = "idle"
  /\ n \in handles
  /\ Len(obs[n].log) < 8
  /\ UNCHANGED handles
  /\ IF ok
     THEN /\ killSent' = [killSent EXCEPT ![n] = TRUE]
          /\ lpc' = "stop_probe"
          /\ cur' = n
          /\ retries' = 1
          /\ Enter(n, "Stopping")
          /\ obs' = [obs EXCEPT ![n].log = Append(@, Event("kill", "ok"))]
          /\ UNCHANGED <<lresult>>
     ELSE /\ lresult' = "IoError"
          /\ obs' = [obs EXCEPT ![n].stopResult = "IoError",
                                ![n].log = Append(@, Event("kill", "err"))]
          /\ Enter(n, "StopIoError")
          /\ UNCHANGED <<killSent, lpc, cur, retries>>
  /\ UNCHANGED <<proc, ledger>>
  /\ UNCHANGED gvars
  /\ UNCHANGED <<bvars, rvars>>

\* StopKill going on to the delete without the probe (kill, then assume dead)
StopKillNoProbe(n, ok) ==
  /\ lpc = "idle"
  /\ n \in handles
  /\ handles' = handles \ {n}
  /\ IF ok
     THEN /\ killSent' = [killSent EXCEPT ![n] = TRUE]
          /\ lpc' = "stop_remove"
          /\ cur' = n
          /\ retries' = 1
          /\ Enter(n, "Stopping")
          /\ obs' = [obs EXCEPT ![n].log = Append(@, Event("kill", "ok"))]
          /\ UNCHANGED <<lresult>>
     ELSE /\ lresult' = "IoError"
          /\ obs' = [obs EXCEPT ![n].stopResult = "IoError",
                                ![n].log = Append(@, Event("kill", "err"))]
          /\ Enter(n, "StopIoError")
          /\ UNCHANGED <<killSent, lpc, cur, retries>>
  /\ UNCHANGED <<proc, ledger>>
  /\ UNCHANGED gvars
  /\ UNCHANGED <<bvars, rvars>>

\* StopKill with the error of start_kill dropped: on to the probe in every case
StopKillIgnoringError(n, ok) ==
  /\ lpc = "idle"
  /\ n \in handles
  /\ handles' = handles \ {n}
  /\ killSent' = [killSent EXCEPT ![n] = ok]
  /\ lpc' = "stop_probe"
  /\ cur' = n
  /\ retries' = 1
  /\ Enter(n, "Stopping")
  /\ obs' = [obs EXCEPT ![n].log = Append(@, Event("kill", IF ok THEN "ok" ELSE "err"))]
  /\ UNCHANGED <<lresult>>
  /\ UNCHANGED <<proc, ledger>>
  /\ UNCHANGED gvars
  /\ UNCHANGED <<bvars, rvars>>

\* self.solana_test_validator_process.start_kill()?  (the handle is moved into stop)
StopKill(n, ok) ==
  /\ lpc = "idle"
  /\ n \in handles
  /\ handles' = handles \ {n}
  /\ IF ok
     THEN /\ killSent' = [killSent EXCEPT ![n] = TRUE]
          /\ lpc' = "stop_probe"
          /\ cur' = n
          /\ retries' = 1
          /\ Enter(n, "Stopping")
          /\ obs' = [obs EXCEPT ![n].log = Append(@, Event("kill", "ok"))]
          /\ UNCHANGED <<lresult>>
     ELSE /\ lresult' = "IoError"
          /\ obs' = [obs EXCEPT ![n].stopResult = "IoError",
                                ![n].log = Append(@, Event("kill", "err"))]
          /\ Enter(n, "StopIoError")
          /\ UNCHANGED <<killSent, lpc, cur, retries>>
  /\ UNCHANGED <<proc, ledger>>
  /\ UNCHANGED gvars
  /\ UNCHANGED <<bvars, rvars>>

\* StopAfterProbe with the early return lost: on to the delete whatever the answer
StopAfterProbeUnchecked(n, running) ==
  /\ obs' = [obs EXCEPT ![n].probes = Append(@, <<FALSE, IF running THEN "true" ELSE "false">>),
                        ![n].log = Append(@, Event("probe_nowait", IF running THEN "true" ELSE "false")),
                        ![n].stopProbe = IF running THEN "running" ELSE "stopped",
                        ![n].deadAtProbe = IF proc[n] = "exited" THEN "yes" ELSE "no"]
  /\ lpc' = "stop_remove"
  /\ UNCHANGED <<lresult, life, hist, cur, retries>>

\* what stop does once its probe answered `running`: the error, or on to the delete
StopAfterProbe(n, running) ==
  IF running
  THEN /\ lresult' = "LocalnetIsStillRunning"
       /\ obs' = [obs EXCEPT ![n].probes = Append(@, <<FALSE, "true">>),
                             ![n].log = Append(@, Event("probe_nowait", "true")),
                             ![n].stopProbe = "running",
                             ![n].deadAtProbe = IF proc[n] = "exited" THEN "yes" ELSE "no",
                             ![n].ledgerGone = (ledger = "absent"),
                             ![n].stopResult = "LocalnetIsStillRunning"]
       /\ Enter(n, "StopFailed")
       /\ lpc' = "idle"
       /\ cur' = 0
       /\ retries' = 0
  ELSE /\ obs' = [obs EXCEPT ![n].probes = Append(@, <<FALSE, "false">>),
                             ![n].log = Append(@, Event("probe_nowait", "false")),
                             ![n].stopProbe = "stopped",
                             ![n].deadAtProbe = IF proc[n] = "exited" THEN "yes" ELSE "no"]
       /\ lpc' = "stop_remove"
       /\ UNCHANGED <<lresult, life, hist, cur, retries>>

\* if Client::new(..).is_localnet_running(false).await { Err(LocalnetIsStillRunning)? }
StopProbe ==
  /\ lpc = "stop_probe"
  /\ StopAfterProbe(cur, ProbeStep(FALSE, retries) = "true")
  /\ UNCHANGED <<proc, killSent, ledger, handles>>
  /\ UNCHANGED gvars
  /\ UNCHANGED <<bvars, rvars>>

\* fs::remove_dir_all("test-ledger").await?  then the function returns
StopRemove(ok) ==
  /\ lpc = "stop_remove"
  /\ LET done == ok /\ ledger = "present"    \* a missing directory is an error (NotFound)
         gone == done \/ ledger = "absent"
         res  == IF done THEN "Ok" ELSE "IoError"
     IN /\ ledger' = IF done THEN "absent" ELSE ledger
        /\ obs' = [obs EXCEPT ![cur].removeCalled = TRUE,
                              ![cur].log = Append(@, Event("remove", IF done THEN "ok" ELSE "err")),
                              ![cur].aliveAtRemove = Alive(cur),
                              ![cur].ledgerGone = gone,
                              ![cur].stopResult = res]
        /\ lresult' = res
        /\ Enter(cur, IF done THEN "Stopped" ELSE "StopIoError")
  /\ lpc' = "idle"
  /\ cur' = 0
  /\ retries' = 0
  /\ UNCHANGED <<proc, killSent, handles>>
  /\ UNCHANGED gvars
  /\ UNCHANGED <<bvars, rvars>>

LNext ==
  \/ \E n \in Nodes : NodeReady(n)
  \/ \E n \in Nodes : NodeUnready(n)
  \/ \E n \in Nodes : NodeExit(n)
  \/ \E ok \in BOOLEAN : StartSpawn(ok)
  \/ StartProbe
  \/ \E n \in Nodes, ok \in BOOLEAN : StopKill(n, ok)
  \/ StopProbe
  \/ \E ok \in BOOLEAN : StopRemove(ok)

\* ================================== generate_program_client_lib_rs

NoProgram == [none |-> "program"]
NoIdl == [none |-> "idl"]
NoText == [none |-> "text"]
NoOutput == [none |-> "output"]
NoResult == [kind |-> "none"]
OldFile == [old |-> "lib.rs"]
TruncatedFile == [truncated |-> "lib.rs"]
NoCalls == [expand |-> <<>>, extract |-> <<>>, fmtSpawns |-> 0, firstExit |-> 0]

\* ---- package discovery

\* the manifest paths a package may have, as path segments; the package's own
\* directory is named after the package
ManifestPaths(name) ==
  { <<"ws", "programs", name, "Cargo.toml">>,    \* a program
    <<"ws", "lib", name, "Cargo.toml">>,         \* a library crate
    <<name, "Cargo.toml">> }                     \* fewer than three segments

\* the name of the j-th package of the workspace (names are unique in a workspace)
PackageName(j) == <<"a", "b", "c", "d", "e", "f">>[j]

PackagesAt(j) == { [name |-> PackageName(j), manifest_path |-> p] : p \in ManifestPaths(PackageName(j)) }

\* the metadata a workspace may yield: packages 1..k, each at one of its paths
Workspaces ==
  UNION { { ws \in [1..k -> UNION { PackagesAt(j) : j \in 1..k }] :
              \A j \in 1..k : ws[j] \in PackagesAt(j) } : k \in 0..MaxPackages }

\* NthBack counting one segment too far from the end
NthBackOffByOne(path, k) == IF Len(path) > k + 1 THEN <<path[Len(path) - k - 1]>> ELSE <<>>

\* package.manifest_path.iter().nth_back(2)
NthBack(path, k) == IF Len(path) > k THEN <<path[Len(path) - k]>> ELSE <<>>

\* the filter_map closure: Some("programs") => Some(package.name), _ => None
IsProgram(package) == NthBack(package.manifest_path, 2) = <<"programs">>

RECURSIVE FilterMap(_)
FilterMap(pkgs) ==
  IF pkgs = <<>> THEN <<>>
  ELSE (IF IsProgram(Head(pkgs)) THEN <<Head(pkgs).name>> ELSE <<>>) \o FilterMap(Tail(pkgs))

\* program_names, in the order of the metadata
ProgramNames == FilterMap(packages)
Chains == 1..Len(ProgramNames)

\* ---- one expansion chain (the async move block)

\* what a chain can come to:
\*   "ok"            expansion exits 0, stdout is UTF-8, the extractor succeeds
\*   "io"            Command::output fails to spawn the compiler
\*   "io_output"     Command::output fails to collect the compiler's output or status
\*   "stdout_utf8"   expansion exits 0, stdout is not UTF-8
\*   "idl"           expansion exits 0, the extractor fails
\*   "nonzero"       expansion exits non-zero, stderr is UTF-8
\*   "stderr_utf8"   expansion exits non-zero, stderr is not UTF-8
Fates == {"ok", "io", "io_output", "stdout_utf8", "idl", "nonzero", "stderr_utf8"}

\* idl::parse_to_idl_program(name, &code): the IdlProgram of program `name`
ParseToIdlProgram(name, code) == [name |-> name, source |-> code]

\* the expanded source of a program (stdout of the compiler)
ExpandedCode(name) == [expanded |-> name]

\* the compiler's diagnostics for a program (stderr of a failed expansion)
Diagnostics(name) == [diagnostics |-> name]

\* bytes: utf8 tells whether they are valid UTF-8, text is what they decode to
Bytes(utf8, text) == [utf8 |-> utf8, text |-> text]

\* the exit code of a compiler that failed
CompileFailure == 101

\* the std::process::Output of the compiler of chain i (environment), as fate[i] has it
CompilerOutput(i) ==
  CASE fate[i] \in {"ok", "idl"} ->
         [status |-> 0, stdout |-> Bytes(TRUE, ExpandedCode(ProgramNames[i])),
          stderr |-> Bytes(TRUE, NoText)]
    [] fate[i] = "stdout_utf8" ->
         [status |-> 0, stdout |-> Bytes(FALSE, NoText), stderr |-> Bytes(TRUE, NoText)]
    [] fate[i] = "nonzero" ->
         [status |-> CompileFailure, stdout |-> Bytes(TRUE, NoText),
          stderr |-> Bytes(TRUE, Diagnostics(ProgramNames[i]))]
    [] fate[i] = "stderr_utf8" ->
         [status |-> CompileFailure, stdout |-> Bytes(TRUE, NoText),
          stderr |-> Bytes(FALSE, NoText)]
    [] OTHER -> NoOutput

\* String::from_utf8(bytes): Ok(text), or Err(FromUtf8Error)
FromUtf8(bytes) == IF bytes.utf8 THEN [ok |-> TRUE, text |-> bytes.text] ELSE [ok |-> FALSE]

\* ChainValue with the name of the first program captured for every chain
ChainValueFirstName(i) == ParseToIdlProgram(ProgramNames[1], ExpandedCode(ProgramNames[1]))

\* Ok(idl::parse_to_idl_program(name, &code).await?) of chain i
ChainValue(i) == ParseToIdlProgram(ProgramNames[i], ExpandedCode(ProgramNames[i]))

\* ChainError with the payload of ReadProgramCodeFailed taken from stdout
ChainErrorFromStdout(i) ==
  CASE fate[i] = "io"          -> [kind |-> "IoError", step |-> "expand", program |-> ProgramNames[i]]
    [] fate[i] = "io_output"   -> [kind |-> "IoError", step |-> "expand", program |-> ProgramNames[i]]
    [] fate[i] = "stdout_utf8" -> [kind |-> "Utf8Error", step |-> "expand", program |-> ProgramNames[i]]
    [] fate[i] = "idl"         -> [kind |-> "IdlError", step |-> "extract", program |-> ProgramNames[i]]
    [] fate[i] \in {"nonzero", "stderr_utf8"} ->
         LET error_text == FromUtf8(CompilerOutput(i).stdout)
         IN IF error_text.ok
            THEN [kind |-> "ReadProgramCodeFailed", step |-> "expand",
                  program |-> ProgramNames[i], text |-> error_text.text]
            ELSE [kind |-> "Utf8Error", step |-> "expand", program |-> ProgramNames[i]]

\* the Err chain i ends with
ChainError(i) ==
  CASE fate[i] = "io"          -> [kind |-> "IoError", step |-> "expand", program |-> ProgramNames[i]]
    [] fate[i] = "io_output"   -> [kind |-> "IoError", step |-> "expand", program |-> ProgramNames[i]]
    [] fate[i] = "stdout_utf8" -> [kind |-> "Utf8Error", step |-> "expand", program |-> ProgramNames[i]]
    [] fate[i] = "idl"         -> [kind |-> "IdlError", step |-> "extract", program |-> ProgramNames[i]]
    [] fate[i] \in {"nonzero", "stderr_utf8"} ->
         \* let error_text = String::from_utf8(output.stderr)?;
         \* Err(Error::ReadProgramCodeFailed(error_text))
         LET error_text == FromUtf8(CompilerOutput(i).stderr)
         IN IF error_text.ok
            THEN [kind |-> "ReadProgramCodeFailed", step |-> "expand",
                  program |-> ProgramNames[i], text |-> error_text.text]
            ELSE [kind |-> "Utf8Error", step |-> "expand", program |-> ProgramNames[i]]

\* PollChain without the test of output.status.success(): a non-zero exit is parsed too
PollChainNoStatusCheck(i) ==
  CASE chain[i] = "unpolled" -> IF fate[i] = "io" THEN "err" ELSE "pending"
    [] chain[i] = "running"  -> IF comp[i] = "exited"
                                THEN (IF fate[i] \in {"ok", "nonzero"} THEN "ok" ELSE "err")
                                ELSE "pending"
    [] OTHER -> chain[i]

\* one poll of chain i: "pending", "ok" or "err"
\*   unpolled: the compiler is spawned by Command::output; a failing spawn ends the chain
\*   running:  pending until the compiler exited and its output was read
PollChain(i) ==
  CASE chain[i] = "unpolled" -> IF fate[i] = "io" THEN "err" ELSE "pending"
    [] chain[i] = "running"  -> IF comp[i] = "exited"
                                THEN (IF fate[i] = "ok" THEN "ok" ELSE "err")
                                ELSE "pending"
    [] OTHER -> chain[i]

\* the compiler subprocess of chain i exits (environment)
CompilerExit(i) ==
  /\ i \in Chains
  /\ comp[i] = "running"
  /\ comp' = [comp EXCEPT ![i] = "exited"]
  /\ calls' = [calls EXCEPT !.firstExit = IF @ = 0 THEN i ELSE @]
  /\ UNCHANGED <<gpc, packages, fate, chain, compKill, slots, idl, fmt, fmtKill, fmtStdin,
                 fmtGot, fmtOut, file, gresult>>
  /\ UNCHANGED lvars
  /\ UNCHANGED <<bvars, rvars>>

\* ---- the start of the function

GInit ==
  /\ gpc = "idle"
  /\ packages = <<>>
  /\ fate = <<>>
  /\ chain = <<>>
  /\ comp = <<>>
  /\ compKill = <<>>
  /\ slots = <<>>
  /\ idl = NoIdl
  /\ fmt = "none"
  /\ fmtKill = FALSE
  /\ fmtStdin = "none"
  /\ fmtGot = NoText
  /\ fmtOut = NoOutput
  /\ file = OldFile
  /\ gresult = NoResult
  /\ calls = NoCalls

\* MetadataCommand::new().no_deps().exec().unwrap(): a failure panics. Then the
\* futures of the fan-out are built (try_join_all collects the iterator; none has run).
\* The inputs of the run are drawn here: the workspace and the fate of each program.
MetadataExec ==
  /\ gpc = "idle"
  /\ \/ /\ gpc' = "done"
        /\ gresult' = [kind |-> "Panic", step |-> "metadata"]
        /\ UNCHANGED <<packages, fate, chain, comp, compKill, slots, calls>>
     \/ \E ws \in Workspaces :
          LET n == Len(FilterMap(ws))
          IN \E fs \in [1..n -> Fates] :
               /\ packages' = ws
               /\ fate' = fs
               /\ chain' = [i \in 1..n |-> "unpolled"]
               /\ comp' = [i \in 1..n |-> "none"]
               /\ compKill' = [i \in 1..n |-> FALSE]
               /\ slots' = [i \in 1..n |-> NoProgram]
               /\ calls' = [NoCalls EXCEPT !.expand = [i \in 1..n |-> 0],
                                           !.extract = [i \in 1..n |-> 0]]
               /\ gpc' = "joining"
               /\ UNCHANGED gresult
  /\ UNCHANGED <<idl, fmt, fmtKill, fmtStdin, fmtGot, fmtOut, file>>
  /\ UNCHANGED lvars
  /\ UNCHANGED <<bvars, rvars>>

\* ---- the fan-out: try_join_all(idl_programs).await?

\* the first chain, in order, whose poll yields an error (0: none); try_join_all
\* polls its futures in order and stops at the first error
RECURSIVE FirstErrFrom(_)
FirstErrFrom(i) ==
  IF i > Len(chain) THEN 0
  ELSE IF PollChain(i) = "err" THEN i
  ELSE FirstErrFrom(i + 1)
FirstErr == FirstErrFrom(1)

\* the chains this poll reaches: all of them, or those up to the first error
Polled(i) == FirstErr = 0 \/ i <= FirstErr

\* the chain states after the poll
ChainsAfterPoll ==
  [i \in Chains |->
     IF ~Polled(i) THEN chain[i]
     ELSE IF PollChain(i) = "pending" THEN "running"
     ELSE PollChain(i)]

\* the compiler subprocesses after the poll: a chain polled for the first time spawns its own
CompAfterPoll ==
  [i \in Chains |->
     IF Polled(i) /\ chain[i] = "unpolled" /\ PollChain(i) = "pending" THEN "running"
     ELSE comp[i]]

\* the compilers this poll spawns: Command::output of a chain polled for the first time
ExpandInvoked(i) == Polled(i) /\ chain[i] = "unpolled"

\* the extractor calls this poll makes: the chain got the output of its compiler,
\* the status is success and stdout decodes
ExtractInvoked(i) ==
  /\ Polled(i) /\ chain[i] = "running" /\ comp[i] = "exited"
  /\ PollChain(i) # "pending"
  /\ CompilerOutput(i) # NoOutput
  /\ CompilerOutput(i).status = 0
  /\ FromUtf8(CompilerOutput(i).stdout).ok

CallsAfterPoll ==
  [calls EXCEPT !.expand = [i \in Chains |-> @[i] + (IF ExpandInvoked(i) THEN 1 ELSE 0)],
                !.extract = [i \in Chains |-> @[i] + (IF ExtractInvoked(i) THEN 1 ELSE 0)]]

SlotsAfterPoll ==
  [i \in Chains |-> IF Polled(i) /\ PollChain(i) = "ok" THEN ChainValue(i) ELSE slots[i]]

\* JoinOutcome of a join that waits for every chain before it reports an error
JoinOutcomeWaitAll ==
  IF \E i \in Chains : ChainsAfterPoll[i] \in {"unpolled", "running"} THEN "pending"
  ELSE IF \E i \in Chains : ChainsAfterPoll[i] = "err" THEN "err"
  ELSE "ok"

\* JoinOutcome of a join that collects what there is once no chain is left to wait for
JoinOutcomeIgnoringErrors ==
  IF \A i \in Chains : ChainsAfterPoll[i] \in {"ok", "err"} THEN "ok"
  ELSE "pending"

\* what the poll of try_join_all yields: "err" at the first error, "ok" when every
\* chain is done, "pending" otherwise
JoinOutcome ==
  IF FirstErr # 0 THEN "err"
  ELSE IF \A i \in Chains : ChainsAfterPoll[i] = "ok" THEN "ok"
  ELSE "pending"

\* the error the join reports: that of the failed chain it found
JoinError ==
  IF FirstErr # 0 THEN ChainError(FirstErr)
  ELSE ChainError(CHOOSE i \in Chains : ChainsAfterPoll[i] = "err")

\* Command::kill_on_drop of the compiler commands (not set: tokio's default)
CompilerKillOnDrop == FALSE

\* .kill_on_drop(true) of the rustfmt command
FormatterKillOnDrop == TRUE

\* the futures of the fan-out are dropped: every chain not done is abandoned, and
\* the Child inside it is dropped with it
DropChains(cs, ps) ==
  /\ chain' = [i \in Chains |-> IF cs[i] \in {"unpolled", "running"} THEN "dropped" ELSE cs[i]]
  /\ compKill' = [i \in Chains |-> compKill[i] \/ (ps[i] = "running" /\ CompilerKillOnDrop)]

\* Collect by completion: the value of the chain that was done first comes first
CollectByCompletion(vs) ==
  LET f == calls.firstExit
  IN [programs |-> [j \in DOMAIN vs |->
                      IF f = 0 THEN vs[j]
                      ELSE IF j = 1 THEN vs[f]
                      ELSE IF j = f THEN vs[1]
                      ELSE vs[j]]]

\* Idl { programs: ... } of the values the join returned, by position
Collect(vs) == [programs |-> vs]

\* a poll of the join: the runtime polls it first when the function is awaited, and
\* again whenever a compiler subprocess it waits for has exited
JoinPoll ==
  /\ gpc = "joining"
  /\ \/ \A i \in Chains : chain[i] = "unpolled"
     \/ \E i \in Chains : chain[i] = "running" /\ comp[i] = "exited"
  /\ comp' = CompAfterPoll
  /\ slots' = SlotsAfterPoll
  /\ calls' = CallsAfterPoll
  /\ CASE JoinOutcome = "pending" ->
            /\ chain' = ChainsAfterPoll
            /\ UNCHANGED <<gpc, compKill, idl, gresult>>
       [] JoinOutcome = "err" ->
            /\ DropChains(ChainsAfterPoll, CompAfterPoll)
            /\ gpc' = "done"
            /\ gresult' = JoinError
            /\ UNCHANGED idl
       [] JoinOutcome = "ok" ->
            /\ chain' = ChainsAfterPoll
            /\ idl' = Collect(SlotsAfterPoll)
            /\ gpc' = "joined"
            /\ UNCHANGED <<compKill, gresult>>
  /\ UNCHANGED <<packages, fate, fmt, fmtKill, fmtStdin, fmtGot, fmtOut, file>>
  /\ UNCHANGED lvars
  /\ UNCHANGED <<bvars, rvars>>

\* ---- the formatter pipe

\* program_client_generator::generate_source_code(idl)
GenerateSourceCode(i) == [client_of |-> i.programs]

\* what rustfmt prints for the text it read
Formatted(text) == [formatted |-> text]

\* the rustfmt Child is dropped: its pipes close, and it is killed if kill_on_drop is set
DropFormatter ==
  /\ fmtStdin' = "closed"
  /\ fmtKill' = (fmtKill \/ (fmt = "running" /\ FormatterKillOnDrop))

\* Command::new("rustfmt")...spawn()?
SpawnFormatter(ok) ==
  /\ gpc = "joined"
  /\ calls' = [calls EXCEPT !.fmtSpawns = @ + 1]
  /\ IF ok
     THEN /\ fmt' = "running"
          /\ fmtStdin' = "open"
          /\ gpc' = "write_stdin"
          /\ UNCHANGED gresult
     ELSE /\ gpc' = "done"
          /\ gresult' = [kind |-> "IoError", step |-> "spawn_formatter"]
          /\ UNCHANGED <<fmt, fmtStdin>>
  /\ UNCHANGED <<packages, fate, chain, comp, compKill, slots, idl, fmtKill, fmtGot, fmtOut, file>>
  /\ UNCHANGED lvars
  /\ UNCHANGED <<bvars, rvars>>

\* stdio.write_all(program_client.as_bytes()).await?  (a broken pipe when rustfmt is gone)
WriteAll ==
  /\ gpc = "write_stdin"
  /\ IF fmt = "running"
     THEN /\ fmtGot' = GenerateSourceCode(idl)
          /\ gpc' = "wait_output"
          /\ UNCHANGED <<gresult, fmtStdin, fmtKill>>
     ELSE /\ gpc' = "done"
          /\ gresult' = [kind |-> "IoError", step |-> "write_stdin"]
          /\ DropFormatter
          /\ UNCHANGED fmtGot
  /\ UNCHANGED <<packages, fate, chain, comp, compKill, slots, idl, fmt, fmtOut, file>>
  /\ UNCHANGED calls
  /\ UNCHANGED lvars
  /\ UNCHANGED <<bvars, rvars>>

\* WaitClose with the stdin handle kept open while waiting
WaitKeepStdin ==
  /\ gpc = "wait_output"
  /\ gpc' = "waiting"
  /\ UNCHANGED <<packages, fate, chain, comp, compKill, slots, idl, fmt, fmtKill, fmtStdin,
                 fmtGot, fmtOut, file, gresult>>
  /\ UNCHANGED calls
  /\ UNCHANGED lvars
  /\ UNCHANGED <<bvars, rvars>>

\* rustfmt.wait_with_output(): the stdin handle is dropped before the wait
WaitClose ==
  /\ gpc = "wait_output"
  /\ fmtStdin' = "closed"
  /\ gpc' = "waiting"
  /\ UNCHANGED <<packages, fate, chain, comp, compKill, slots, idl, fmt, fmtKill,
                 fmtGot, fmtOut, file, gresult>>
  /\ UNCHANGED calls
  /\ UNCHANGED lvars
  /\ UNCHANGED <<bvars, rvars>>

\* rustfmt exits once it has read its input to the end (environment): status 0 with
\* the formatted text, or a failure with nothing printed; its output may not be UTF-8
FormatterExit(status, utf8) ==
  /\ fmt = "running"
  /\ fmtStdin = "closed"
  /\ fmt' = "exited"
  /\ fmtOut' = [status |-> status, utf8 |-> utf8,
                text |-> IF status = 0 /\ fmtGot # NoText THEN Formatted(fmtGot) ELSE NoText]
  /\ UNCHANGED <<gpc, packages, fate, chain, comp, compKill, slots, idl, fmtKill, fmtStdin,
                 fmtGot, file, gresult>>
  /\ UNCHANGED calls
  /\ UNCHANGED lvars
  /\ UNCHANGED <<bvars, rvars>>

\* rustfmt crashes before it has read its input to the end (environment)
FormatterDie ==
  /\ fmt = "running"
  /\ fmtStdin # "closed"
  /\ fmt' = "exited"
  /\ fmtOut' = [status |-> 1, utf8 |-> TRUE, text |-> NoText]
  /\ UNCHANGED <<gpc, packages, fate, chain, comp, compKill, slots, idl, fmtKill, fmtStdin,
                 fmtGot, file, gresult>>
  /\ UNCHANGED calls
  /\ UNCHANGED lvars
  /\ UNCHANGED <<bvars, rvars>>

\* rustfmt dies of the kill sent when its Child was dropped (environment)
FormatterKilled ==
  /\ fmt = "running"
  /\ fmtKill
  /\ fmt' = "exited"
  /\ fmtOut' = [status |-> 1, utf8 |-> TRUE, text |-> NoText]
  /\ UNCHANGED <<gpc, packages, fate, chain, comp, compKill, slots, idl, fmtKill, fmtStdin,
                 fmtGot, file, gresult>>
  /\ UNCHANGED calls
  /\ UNCHANGED lvars
  /\ UNCHANGED <<bvars, rvars>>

\* WaitWithOutput with a lossy decoding: output that is not UTF-8 is written too
WaitWithOutputLossy(ok) ==
  /\ gpc = "waiting"
  /\ IF ~ok
     THEN /\ gpc' = "done"
          /\ gresult' = [kind |-> "IoError", step |-> "wait_with_output"]
          /\ DropFormatter
     ELSE /\ fmt = "exited"
          /\ gpc' = "write_file"
          /\ UNCHANGED <<gresult, fmtStdin, fmtKill>>
  /\ UNCHANGED <<packages, fate, chain, comp, compKill, slots, idl, fmt, fmtGot, fmtOut, file>>
  /\ UNCHANGED calls
  /\ UNCHANGED lvars
  /\ UNCHANGED <<bvars, rvars>>

\* let output = rustfmt.wait_with_output().await?;
\* let program_client = String::from_utf8(output.stdout)?;
WaitWithOutput(ok) ==
  /\ gpc = "waiting"
  /\ IF ~ok
     THEN /\ gpc' = "done"
          /\ gresult' = [kind |-> "IoError", step |-> "wait_with_output"]
          /\ DropFormatter
     ELSE /\ fmt = "exited"
          /\ IF fmtOut.utf8
             THEN /\ gpc' = "write_file"
                  /\ UNCHANGED gresult
             ELSE /\ gpc' = "done"
                  /\ gresult' = [kind |-> "Utf8Error", step |-> "decode_output"]
          /\ UNCHANGED <<fmtStdin, fmtKill>>
  /\ UNCHANGED <<packages, fate, chain, comp, compKill, slots, idl, fmt, fmtGot, fmtOut, file>>
  /\ UNCHANGED calls
  /\ UNCHANGED lvars
  /\ UNCHANGED <<bvars, rvars>>

\* fs::write(rust_file_path, &program_client).await?  (not atomic: a failed write may
\* leave the file as it was or truncated)
WriteFile(ok, truncated) ==
  /\ gpc = "write_file"
  /\ gpc' = "done"
  /\ IF ok
     THEN /\ ~truncated
          /\ file' = fmtOut.text
          /\ gresult' = [kind |-> "Ok"]
     ELSE /\ file' = IF truncated THEN TruncatedFile ELSE file
          /\ gresult' = [kind |-> "IoError", step |-> "write_file"]
  /\ UNCHANGED <<packages, fate, chain, comp, compKill, slots, idl, fmt, fmtKill, fmtStdin,
                 fmtGot, fmtOut>>
  /\ UNCHANGED calls
  /\ UNCHANGED lvars
  /\ UNCHANGED <<bvars, rvars>>

GNext ==
  \/ MetadataExec
  \/ \E i \in 1..MaxPackages : CompilerExit(i)
  \/ JoinPoll
  \/ \E ok \in BOOLEAN : SpawnFormatter(ok)
  \/ WriteAll
  \/ WaitClose
  \/ \E status \in {0, 1}, utf8 \in BOOLEAN : FormatterExit(status, utf8)
  \/ FormatterDie
  \/ FormatterKilled
  \/ \E ok \in BOOLEAN : WaitWithOutput(ok)
  \/ \E ok \in BOOLEAN, truncated \in BOOLEAN : WriteFile(ok, truncated)

\* ================================================== build_programs

\* calls of build_programs in a behaviour
MaxBuilds == 2

\* the largest exit code of the build tool
MaxExitCode == 2

NoStatus == [none |-> "status"]

\* std::process::ExitStatus: an exit code, or the death by a signal (no code)
ExitStatuses == { [code |-> c] : c \in 0..MaxExitCode } \cup { [signal |-> "SIGKILL"] }

BInit ==
  /\ bpc = "idle"
  /\ builds = <<>>

\* Success counting every status but exit code 1 as a success
SuccessUnlessOne(status) == status # [code |-> 1]

\* ExitStatus::success(): the process exited with code 0
Success(status) == status = [code |-> 0]

\* if !success { Err(Error::BuildProgramsFailed)?; }  else Ok(())
BuildResult(status) == IF Success(status) THEN "Ok" ELSE "BuildProgramsFailed"

\* Command::new("cargo").arg("build-bpf")...spawn()?
BuildSpawn(ok) ==
  /\ bpc = "idle"
  /\ Len(builds) < MaxBuilds
  /\ builds' = Append(builds, [proc |-> IF ok THEN "running" ELSE "none",
                               status |-> NoStatus,
                               failed |-> IF ok THEN "none" ELSE "spawn",
                               result |-> IF ok THEN "pending" ELSE "IoError"])
  /\ bpc' = IF ok THEN "waiting" ELSE "idle"
  /\ UNCHANGED <<lvars, gvars, rvars>>

\* the build tool of call k exits (environment)
BuildExit(k, status) ==
  /\ k \in DOMAIN builds
  /\ builds[k].proc = "running"
  /\ builds' = [builds EXCEPT ![k].proc = "exited", ![k].status = status]
  /\ UNCHANGED bpc
  /\ UNCHANGED <<lvars, gvars, rvars>>

\* .wait().await?.success(), then the test of success; wait returns the status once
\* the child has exited, or fails
BuildWait(ok) ==
  /\ bpc = "waiting"
  /\ LET k == Len(builds)
     IN IF ok
        THEN /\ builds[k].proc = "exited"
             /\ builds' = [builds EXCEPT ![k].result = BuildResult(builds[k].status)]
        ELSE /\ builds' = [builds EXCEPT ![k].failed = "wait", ![k].result = "IoError"]
  /\ bpc' = "idle"
  /\ UNCHANGED <<lvars, gvars, rvars>>

BNext ==
  \/ \E ok \in BOOLEAN : BuildSpawn(ok)
  \/ \E k \in 1..MaxBuilds, status \in ExitStatuses : BuildExit(k, status)
  \/ \E ok \in BOOLEAN : BuildWait(ok)

\* ================================================== the package resolver

\* the manifest paths the resolver is tried with, as path segments
ResolverPaths(name) ==
  ManifestPaths(name) \cup
  { <<"programs", name, "Cargo.toml">>,               \* three segments, no parent
    <<"/", "programs", name, "Cargo.toml">>,          \* under the root directory
    <<"programs", "Cargo.toml">>,                     \* "programs" second from last
    <<"Cargo.toml">>,                                 \* one segment
    <<"ws", "programs", name, "sub", "Cargo.toml">>,  \* "programs" fourth from last
    <<"programs", "lib", name, "Cargo.toml">> }       \* "programs" first, not third from last

ResolverPackagesAt(j) ==
  { [name |-> PackageName(j), manifest_path |-> p] : p \in ResolverPaths(PackageName(j)) }

\* the metadata of k packages: packages 1..k, each at one of the paths
RECURSIVE ResolverInputsOf(_)
ResolverInputsOf(k) ==
  IF k = 0 THEN { <<>> }
  ELSE { Append(ws, package) : ws \in ResolverInputsOf(k - 1), package \in ResolverPackagesAt(k) }

\* the metadata the resolver is tried with
ResolverInputs == UNION { ResolverInputsOf(k) : k \in 0..MaxPackages }

\* no metadata handed to the resolver
RIdle ==
  /\ rpkgs = <<>>
  /\ rpos = 0
  /\ rsel = <<>>

\* cargo_toml_data.packages.into_iter().filter_map(...): nothing examined yet
RInit ==
  /\ rpkgs \in ResolverInputs
  /\ rpos = 0
  /\ rsel = <<>>

\* the iterator examines the next package: the closure of filter_map, applied to it
ResolverStep ==
  /\ rpos < Len(rpkgs)
  /\ rpos' = rpos + 1
  /\ rsel' = rsel \o FilterMap(<<rpkgs[rpos + 1]>>)
  /\ UNCHANGED rpkgs
  /\ UNCHANGED <<lvars, gvars, bvars>>

RNext == ResolverStep

\* ================================================== specifications

Init == LInit /\ GInit /\ BInit /\ RIdle

\* the localnet lifecycle alone
LocalnetSpec == Init /\ [][LNext]_vars

\* generate_program_client_lib_rs alone
Spec == Init /\ [][GNext]_vars

\* build_programs alone
BuildSpec == Init /\ [][BNext]_vars

\* the package resolver alone, for every metadata
ResolverInit == LInit /\ GInit /\ BInit /\ RInit
ResolverSpec == ResolverInit /\ [][RNext]_vars

\* generate_program_client_lib_rs, awaited to its end: the runtime polls the function
\* whenever it can go on, rustfmt exits once it has read its input to the end, and a
\* killed process dies. No failure is ever forced: the failing outcomes are not fair.
FairSpec ==
  /\ Spec
  /\ WF_vars(WriteAll)
  /\ WF_vars(WaitClose)
  /\ WF_vars(\E status \in {0, 1}, utf8 \in BOOLEAN : FormatterExit(status, utf8))
  /\ WF_vars(FormatterKilled)
  /\ WF_vars(WaitWithOutput(TRUE))
  /\ WF_vars(\E ok \in BOOLEAN, truncated \in BOOLEAN : WriteFile(ok, truncated))

\* ============================================================ properties
\* ---- localnet

IsPrefix(s, t) == Len(s) <= Len(t) /\ SubSeq(t, 1, Len(s)) = s

StopReturned(n) == obs[n].stopResult # "none"

\* C1 as stated: when stop's probe (after the kill, wait = false) answers "running",
\* stop returns LocalnetIsStillRunning and the ledger directory is not deleted; when
\* it answers "not running", the ledger directory is deleted when stop returns.
C1_AsStated ==
  \A n \in Nodes :
    /\ obs[n].stopProbe = "running" =>
         obs[n].stopResult = "LocalnetIsStillRunning" /\ ~obs[n].removeCalled
    /\ (obs[n].stopProbe = "stopped" /\ StopReturned(n)) => obs[n].ledgerGone

\* C1 as amended: when stop's probe answers "running", stop returns
\* LocalnetIsStillRunning and never calls the recursive delete; when it answers "not
\* running", stop always calls the recursive delete, and the ledger directory is
\* gone when stop returns unless the delete itself failed, in which case stop
\* returns the I/O error (and returns success only when the directory was removed).
C1_StopDeletesAccordingToProbe ==
  \A n \in Nodes :
    /\ obs[n].stopProbe = "running" =>
         obs[n].stopResult = "LocalnetIsStillRunning" /\ ~obs[n].removeCalled
    /\ (obs[n].stopProbe = "stopped" /\ StopReturned(n)) =>
         /\ obs[n].removeCalled
         /\ obs[n].ledgerGone \/ obs[n].stopResult = "IoError"
         /\ obs[n].stopResult = "Ok" => obs[n].ledgerGone

\* both branches of stop were taken: one stop refused with the ledger kept, one deleted it
C1_Witness ==
  \E n, m \in Nodes :
    /\ obs[n].stopProbe = "running" /\ obs[n].stopResult = "LocalnetIsStillRunning"
    /\ ~obs[n].ledgerGone
    /\ obs[m].stopProbe = "stopped" /\ obs[m].stopResult = "Ok" /\ obs[m].ledgerGone

\* C2: whenever stop performs the recursive delete of the ledger directory, the
\* validator process owned by the handle being stopped has terminated.
C2_NoDeleteWhileAlive ==
  \A n \in Nodes : obs[n].removeCalled => ~obs[n].aliveAtRemove

\* ---- C3: the scenario "a node that becomes ready immediately and dies
\* immediately when killed", for the only node of the run
OnlyNode(n) == \A m \in Nodes : m # n => proc[m] = "unspawned"
InstantNode(n) ==
  /\ OnlyNode(n)
  /\ obs[n].startReady \in {"none", "yes"}   \* answering at the first poll of start's probe
  /\ obs[n].deadAtProbe \in {"none", "yes"}  \* exited before stop's probe

HappyPath == <<"NotStarted", "Starting", "Running", "Stopping", "Stopped">>

\* C3 as stated: with such a node, start then stop goes NotStarted -> (Starting) ->
\* Running -> (Stopping) -> Stopped: start returns a handle, stop returns success with
\* the ledger directory deleted, and StartFailed and StopFailed are never entered.
C3_AsStated ==
  \A n \in Nodes :
    InstantNode(n) =>
      /\ IsPrefix(hist[n], HappyPath)
      /\ StopReturned(n) => obs[n].stopResult = "Ok" /\ obs[n].ledgerGone

\* C3 as amended: with such a node, start then stop goes NotStarted -> (Starting) ->
\* Running -> (Stopping) -> Stopped with stop returning success and the ledger directory
\* deleted, unless the kill request or the recursive delete itself fails with an I/O
\* error, which stop then returns; StartFailed and StopFailed are never entered.
C3_InstantNodeStartStop ==
  \A n \in Nodes :
    InstantNode(n) =>
      /\ life[n] \notin {"StartFailed", "StopFailed"}
      /\ \/ IsPrefix(hist[n], HappyPath)
         \/ /\ life[n] = "StopIoError"
            /\ obs[n].stopResult = "IoError"
            /\ IsPrefix(SubSeq(hist[n], 1, Len(hist[n]) - 1), HappyPath)
      /\ StopReturned(n) =>
           \/ obs[n].stopResult = "Ok" /\ obs[n].ledgerGone /\ hist[n] = HappyPath
           \/ obs[n].stopResult = "IoError"
      /\ life[n] = "Running" => (n \in handles /\ lresult = "Handle") \/ lresult = "IoError"

\* the whole path was walked: started, stopped, ledger deleted
C3_Witness ==
  \E n \in Nodes :
    /\ InstantNode(n) /\ obs[n].startReady = "yes" /\ obs[n].deadAtProbe = "yes"
    /\ hist[n] = HappyPath /\ obs[n].stopResult = "Ok" /\ ledger = "absent"

\* C8: when start_localnet's probe (wait = true) answers "not running", start
\* returns LocalnetIsNotRunning and no handle, and leaves the spawned process and the
\* ledger directory as they are: no kill is requested, then or later.
C8_StartFailureLeavesProcess ==
  /\ [][ (lpc = "start_probe" /\ lpc' = "idle") =>
           IF ProbeStep(TRUE, retries) = "false"
           THEN /\ lresult' = "LocalnetIsNotRunning"
                /\ life'[cur] = "StartFailed"
                /\ handles' = handles
                /\ proc' = proc /\ killSent' = killSent /\ ledger' = ledger
           ELSE lresult' = "Handle" ]_vars
  /\ [](\A n \in Nodes : life[n] = "StartFailed" =>
           n \notin handles /\ ~killSent[n] /\ ~obs[n].removeCalled)

\* start failed and the process it spawned is still running, unkilled
C8_Witness ==
  \E n \in Nodes :
    /\ life[n] = "StartFailed" /\ lpc = "idle" /\ lresult = "LocalnetIsNotRunning"
    /\ Alive(n) /\ ~killSent[n] /\ handles = {}

\* ---- generate_program_client_lib_rs

Failing == { i \in Chains : fate[i] # "ok" }
Failed == gresult.kind \notin {"none", "Ok"}

\* C4: if exactly one of N >= 2 chains fails, then in every interleaving the
\* operation returns that chain's error and never a success: no Idl is assembled, no
\* formatter is spawned and the target file is not written.
C4_OneFailureFailsTheRun ==
  (gpc # "idle" /\ Len(chain) >= 2 /\ Cardinality(Failing) = 1) =>
    /\ gpc \in {"joining", "done"}
    /\ idl = NoIdl /\ fmt = "none" /\ fmtGot = NoText /\ file = OldFile
    /\ gresult.kind # "Ok"
    /\ gpc = "done" => \E i \in Failing : gresult = ChainError(i)

\* the one failing chain is not the first one, another chain had already succeeded,
\* and the run ended with the failing chain's error
C4_Witness ==
  /\ gpc = "done" /\ Len(chain) >= 2 /\ Cardinality(Failing) = 1
  /\ \E i \in Failing : i > 1 /\ gresult = ChainError(i) /\ chain[1] = "ok"

Discovered == { packages[j].name : j \in { k \in DOMAIN packages : IsProgram(packages[k]) } }

\* C5: when every expansion and extraction succeeds, in every completion order the
\* join succeeds and Idl.programs holds exactly one IdlProgram per discovered program.
C5_OneEntryPerProgram ==
  /\ idl # NoIdl =>
       /\ Len(idl.programs) = Cardinality(Discovered)
       /\ \A name \in Discovered :
            Cardinality({ j \in DOMAIN idl.programs : idl.programs[j].name = name }) = 1
  /\ (gpc \notin {"idle", "joining"} /\ gresult.kind # "Panic" /\ Failing = {}) => idl # NoIdl

\* a workspace of programs and other packages, two programs or more, assembled
C5_Witness ==
  /\ idl # NoIdl /\ Len(idl.programs) >= 2 /\ Cardinality(Discovered) = Len(idl.programs)
  /\ Len(packages) > Len(idl.programs)

\* C6: after generate_program_client_lib_rs returned an error, no compiler
\* subprocess of the run is left alive without having been killed.
C6_NoLeakedCompiler ==
  (gpc = "done" /\ Failed) => \A i \in Chains : comp[i] = "running" => compKill[i]

\* C7: the join is fail-fast: as soon as one chain has completed with an error the
\* join has completed with an error, whatever the other chains are doing.
C7_FailFast ==
  (\E i \in Chains : chain[i] = "err") =>
    /\ gpc = "done" /\ Failed
    /\ \E i \in Chains : chain[i] = "err" /\ gresult = ChainError(i)

\* the join ended with an error while another chain's compiler was still running
C7_Witness ==
  /\ gpc = "done" /\ Failed
  /\ \E i, j \in Chains : chain[i] = "err" /\ chain[j] = "dropped" /\ comp[j] = "running"

\* C9: the target file is written only after every chain succeeded, the client was
\* generated and the formatter's whole output was read and decoded; when an earlier
\* step fails the failure is reported and the file is as it was.
C9_AllOrNothingFile ==
  /\ (file # OldFile \/ gpc = "write_file" \/ gresult.kind = "Ok") =>
       /\ \A i \in Chains : chain[i] = "ok"
       /\ idl # NoIdl /\ fmtGot = GenerateSourceCode(idl)
       /\ fmt = "exited" /\ fmtStdin = "closed" /\ fmtOut.utf8
       /\ gresult.kind = "none" \/ gresult.kind = "Ok" \/ gresult.step = "write_file"
  /\ gpc = "done" => gresult # NoResult
  /\ (Failed /\ gresult.step # "write_file") => file = OldFile

\* the run failed after the formatter had been fed, and the file is as it was
C9_Witness ==
  /\ gpc = "done" /\ gresult.kind = "Utf8Error" /\ gresult.step = "decode_output"
  /\ fmtGot # NoText /\ file = OldFile

\* C10: once rustfmt is spawned, its stdin is closed on every path out of the
\* function, the function comes to its end, and by then rustfmt is no longer running
\* (given that rustfmt exits once it has read its input to the end).
C10_FormatterNeverBlocked ==
  /\ []((gpc = "done" /\ fmt # "none") => fmtStdin = "closed")
  /\ (fmt = "running") ~> (gpc = "done" /\ fmt = "exited")

\* the text was written, stdin closed, rustfmt exited and the function returned
C10_Witness ==
  /\ gpc = "done" /\ gresult.kind = "Ok" /\ fmtGot # NoText
  /\ fmtStdin = "closed" /\ fmt = "exited" /\ fmtOut.status = 0

\* ---- localnet, continued

Count(l, ev) == Cardinality({ k \in DOMAIN l : l[k].ev = ev })
Last(l) == l[Len(l)]

\* C11: a LocalnetHandle exists only between a successful start and the call of
\* stop, which consumes it: per started process at most one kill request, one probe
\* after the kill and one ledger deletion are ever made, and once stop was called
\* (whether it succeeds or fails) the handle is gone.
C11_HandleConsumedByStop ==
  \A n \in Nodes :
    /\ n \in handles =>
         /\ life[n] = "Running"
         /\ obs[n].log # <<>> /\ Last(obs[n].log) = Event("probe_wait", "true")
    /\ Count(obs[n].log, "kill") <= 1
    /\ Count(obs[n].log, "probe_nowait") <= 1
    /\ Count(obs[n].log, "remove") <= 1
    /\ Count(obs[n].log, "kill") = 1 => n \notin handles

\* a stop that failed (still running) and a stop that succeeded: both handles are gone
C11_Witness ==
  /\ handles = {} /\ lpc = "idle"
  /\ \E n, m \in Nodes :
       /\ obs[n].stopResult = "LocalnetIsStillRunning" /\ Count(obs[n].log, "kill") = 1
       /\ obs[m].stopResult = "Ok" /\ Count(obs[m].log, "remove") = 1

\* C15: whenever start_localnet returns a handle, the process the handle owns is
\* alive and is the validator that answered the readiness probe.
C15_HandleOwnsAnsweringNode ==
  \A n \in Nodes : obs[n].ownAtHandle # "no"

\* the order of the steps of start_localnet and stop about one process
LogShape(l) ==
  /\ Len(l) <= 5
  /\ Len(l) >= 1 => l[1] = Event("spawn", "ok")
  /\ Len(l) >= 2 => l[2].ev = "probe_wait"
  /\ Len(l) >= 3 => l[3].ev = "kill" /\ l[2].arg = "true"
  /\ Len(l) >= 4 => l[4].ev = "probe_nowait" /\ l[3].arg = "ok"
  /\ Len(l) >= 5 => l[5].ev = "remove" /\ l[4].arg = "false"

\* C16: the steps come in a fixed order with one probe each: in start_localnet the
\* spawn, then one probe with wait = true; in stop the kill request, then one probe
\* with wait = false, then the ledger deletion, which is never attempted before the
\* answer of that probe is known.
C16_FixedOrderOneProbeEach ==
  \A n \in Nodes :
    /\ LogShape(obs[n].log)
    /\ lpc = "stop_remove" /\ cur = n =>
         Len(obs[n].log) = 4 /\ obs[n].log[4] = Event("probe_nowait", "false")

\* all five steps were taken for one process
C16_Witness ==
  \E n \in Nodes :
    /\ Len(obs[n].log) = 5
    /\ obs[n].log[2] = Event("probe_wait", "true")
    /\ obs[n].log[4] = Event("probe_nowait", "false")
    /\ obs[n].log[5] = Event("remove", "ok")

KillFailed(n) == \E k \in DOMAIN obs[n].log : obs[n].log[k] = Event("kill", "err")

\* C19: if the kill request of stop fails, stop returns that I/O error at once: no
\* probe is made, the ledger directory is not deleted, and the handle is consumed all
\* the same.
C19_KillFailureReturnsAtOnce ==
  \A n \in Nodes :
    KillFailed(n) =>
      /\ Last(obs[n].log) = Event("kill", "err")
      /\ Count(obs[n].log, "probe_nowait") = 0
      /\ Count(obs[n].log, "remove") = 0 /\ ~obs[n].removeCalled
      /\ obs[n].stopResult = "IoError" /\ life[n] = "StopIoError"
      /\ ~killSent[n]
      /\ n \notin handles /\ cur # n

\* the kill request failed: the process is alive, not killed, and no handle is left for it
C19_Witness ==
  \E n \in Nodes :
    /\ KillFailed(n) /\ Alive(n) /\ ~killSent[n]
    /\ handles = {} /\ lpc = "idle" /\ lresult = "IoError" /\ ledger = "present"

\* ---- generate_program_client_lib_rs, continued

\* the chains that ended with the output of a compiler that exited non-zero
ExitedNonZero ==
  { i \in Chains : chain[i] = "err" /\ CompilerOutput(i) # NoOutput /\ CompilerOutput(i).status # 0 }

\* C12 as stated: a chain whose compiler exits non-zero yields ReadProgramCodeFailed
\* with the compiler's stderr text verbatim, and the extractor is not invoked for it.
C12_AsStated ==
  \A i \in ExitedNonZero :
    /\ ChainError(i).kind = "ReadProgramCodeFailed"
    /\ ChainError(i).text = CompilerOutput(i).stderr.text
    /\ calls.extract[i] = 0

\* C12: a chain whose compiler exits non-zero never invokes the extractor and never
\* yields an I/O error: if the compiler's stderr is valid UTF-8 it yields
\* ReadProgramCodeFailed with exactly that text, otherwise Utf8Error; and that error
\* is what the run returns.
C12_NonZeroExitKeepsDiagnostics ==
  \A i \in ExitedNonZero :
    /\ calls.extract[i] = 0
    /\ ChainError(i).kind # "IoError"
    /\ IF CompilerOutput(i).stderr.utf8
       THEN ChainError(i) = [kind |-> "ReadProgramCodeFailed", step |-> "expand",
                             program |-> ProgramNames[i],
                             text |-> CompilerOutput(i).stderr.text]
       ELSE ChainError(i).kind = "Utf8Error"
    /\ gresult = ChainError(i)

\* the second of two programs failed to compile; the run returned its diagnostics
C12_Witness ==
  \E i \in ExitedNonZero :
    /\ i > 1 /\ gpc = "done"
    /\ gresult.kind = "ReadProgramCodeFailed"
    /\ gresult.text = Diagnostics(ProgramNames[i])
    /\ calls.expand[i] = 1 /\ calls.extract[i] = 0

\* C17: whenever the run reports success, the file holds the whole formatted client of
\* the discovered programs; a formatter that exited non-zero is reported as a failure
\* and the file is not overwritten.
C17_SuccessMeansFormattedFile ==
  /\ gresult.kind = "Ok" =>
       /\ fmtOut.status = 0
       /\ file = Formatted(GenerateSourceCode(idl))
  /\ (fmtOut # NoOutput /\ fmtOut.status # 0) => file = OldFile

\* C18: on success Idl.programs is in the order of discovery, whatever the order in
\* which the compilers of the chains exited.
C18_ProgramsInDiscoveryOrder ==
  idl # NoIdl =>
    /\ Len(idl.programs) = Len(ProgramNames)
    /\ \A j \in DOMAIN idl.programs :
         idl.programs[j] = ParseToIdlProgram(ProgramNames[j], ExpandedCode(ProgramNames[j]))
    /\ ProgramNames # <<>> => calls.firstExit \in Chains

\* three programs, the last one's compiler exited first, and the run succeeded
C18_Witness ==
  /\ gresult.kind = "Ok" /\ Len(ProgramNames) = MaxPackages
  /\ calls.firstExit = MaxPackages
  /\ idl.programs[1].name = ProgramNames[1]

\* C20: per run the compiler is invoked at most once for each program (no retry
\* after a failure), and rustfmt is spawned at most once and only after every chain
\* has completed with success.
C20_SingleInvocations ==
  /\ \A i \in Chains :
       /\ calls.expand[i] <= 1 /\ calls.extract[i] <= calls.expand[i]
       /\ chain[i] \in {"err", "ok"} => calls.expand[i] = 1
  /\ calls.fmtSpawns <= 1
  /\ (calls.fmtSpawns = 1 \/ fmt # "none") =>
       \A i \in Chains : chain[i] = "ok" /\ comp[i] = "exited" /\ calls.extract[i] = 1

\* rustfmt was spawned after two chains or more had succeeded, each invoked once
C20_Witness ==
  /\ calls.fmtSpawns = 1 /\ fmt = "running" /\ Len(ProgramNames) >= 2
  /\ \A i \in Chains : calls.expand[i] = 1 /\ chain[i] = "ok"

\* ---- build_programs

\* C13: build_programs returns a status-dependent result only once the build tool has
\* exited: exit code 0 gives Ok, every other exit status gives BuildProgramsFailed;
\* a failure of the spawn or of the wait gives IoError, never BuildProgramsFailed.
C13_BuildStatusMapping ==
  \A k \in DOMAIN builds :
    LET b == builds[k]
    IN /\ b.result = "pending" <=> (k = Len(builds) /\ bpc = "waiting")
       /\ b.failed # "none" <=> b.result = "IoError"
       /\ b.failed = "spawn" => b.proc = "none"
       /\ b.result = "Ok" <=> (b.failed = "none" /\ b.proc = "exited"
                                /\ b.result # "pending" /\ b.status = [code |-> 0])
       /\ b.result = "BuildProgramsFailed" <=>
            (b.failed = "none" /\ b.proc = "exited" /\ b.result # "pending"
             /\ b.status \in ExitStatuses \ {[code |-> 0]})

\* one build ended with the largest exit code and failed, the next one succeeded
C13_Witness ==
  /\ bpc = "idle" /\ Len(builds) = 2
  /\ builds[1].status = [code |-> MaxExitCode] /\ builds[1].result = "BuildProgramsFailed"
  /\ builds[2].status = [code |-> 0] /\ builds[2].result = "Ok"

\* ---- the package resolver

\* "programs" is the third segment of the path from its end
ThirdFromLastIsPrograms(path) == Len(path) >= 3 /\ path[Len(path) - 2] = "programs"

Examined == 1..rpos
Yielded == { rsel[k] : k \in DOMAIN rsel }

\* C14: the resolver yields exactly the names of the packages whose manifest path has
\* "programs" as its third segment from the end, once each and in the order of the
\* metadata; a path of fewer than three segments is never selected.
C14_ResolverSelectsProgramsDirs ==
  /\ \A j \in Examined :
       rpkgs[j].name \in Yielded <=> ThirdFromLastIsPrograms(rpkgs[j].manifest_path)
  /\ Yielded \subseteq { rpkgs[j].name : j \in Examined }
  /\ Len(rsel) = Cardinality(Yielded)
  /\ \A k, l \in DOMAIN rsel :
       k < l => \E i, j \in Examined : i < j /\ rpkgs[i].name = rsel[k] /\ rpkgs[j].name = rsel[l]
  /\ \A j \in Examined : Len(rpkgs[j].manifest_path) < 3 => rpkgs[j].name \notin Yielded

\* a program, a library crate and a package with a two-segment path were examined:
\* only the program was yielded
C14_Witness ==
  /\ rpos = Len(rpkgs) /\ rpos = MaxPackages
  /\ \E i, j, k \in Examined :
       /\ rpkgs[i].manifest_path = <<"ws", "programs", rpkgs[i].name, "Cargo.toml">>
       /\ rpkgs[j].manifest_path = <<"ws", "lib", rpkgs[j].name, "Cargo.toml">>
       /\ rpkgs[k].manifest_path = <<rpkgs[k].name, "Cargo.toml">>
       /\ rsel = <<rpkgs[i].name>>

====
